---- MODULE Spec2Model ----
(***************************************************************************)
(* Installment ledger of paytrack-backend.                                 *)
(*                                                                         *)
(* Scheduled-verified mode: apps/core (InstallmentPlan, InstallmentPayment *)
(* and the submit / verify views).  Running-balance mode: apps/customers   *)
(* (InstallmentRecord, PaymentRecord and their viewsets).                  *)
(*                                                                         *)
(* Money is counted in whole cents (DecimalField, decimal_places=2).       *)
(* Dates are day ordinals, day 1 being 1 January 2024.                      *)
(***************************************************************************)
EXTENDS Integers, Sequences, FiniteSets, TLC

VARIABLES
    plan,       \* the installment_plans row (NoPlan before createPlan)
    slots,      \* the installment_payments rows of the plan, by installment_number
    today,      \* timezone.now().date()
    db,         \* how the database rounds a Decimal it stores (see DbQuantize)
    resp,       \* the last request that returned, and its response
    reqs,       \* in-flight requests of the scheduled mode, step by step
    records,    \* the installment_records rows, by record id
    payments,   \* the payment_records rows (live events)
    nextEvent,  \* number of payment_records rows created so far
    jobs        \* in-flight requests of the running-balance mode, step by step

vars == <<plan, slots, today, db, resp, reqs, records, payments, nextEvent, jobs>>

schedVars == <<plan, slots, reqs>>
runVars == <<records, payments, nextEvent, jobs>>

-----------------------------------------------------------------------------
(* Bounds of the model *)

MaxTotal == 3           \* largest total_amount / down_payment, in cents
MaxInstallments == 2    \* largest number_of_installments
MaxCost == 3            \* largest total_cost of a running-balance record, in cents
MaxPay == 2             \* largest amount_paid of one payment event, in cents
MaxEvents == 3          \* payment events created in one behaviour
MaxCount == 3           \* largest number_of_installments of the creation runs

-----------------------------------------------------------------------------
(* Calendar: datetime.date, timedelta and dateutil.relativedelta *)

IsLeap(y) == (y % 4 = 0 /\ y % 100 # 0) \/ y % 400 = 0

DaysInMonth(y, m) ==
    IF m = 2 THEN (IF IsLeap(y) THEN 29 ELSE 28)
    ELSE IF m \in {4, 6, 9, 11} THEN 30 ELSE 31

\* months are counted from January 2024: month index 0
MonthYear(mi) == 2024 + (mi \div 12)
MonthOfYear(mi) == (mi % 12) + 1

RECURSIVE DaysBeforeMonth(_)
DaysBeforeMonth(mi) ==
    IF mi = 0 THEN 0
    ELSE DaysBeforeMonth(mi - 1) + DaysInMonth(MonthYear(mi - 1), MonthOfYear(mi - 1))

MkDate(y, m, d) == DaysBeforeMonth((y - 2024) * 12 + (m - 1)) + d

RECURSIVE MonthIndexFrom(_, _)
MonthIndexFrom(date, mi) ==
    IF date <= DaysBeforeMonth(mi + 1) THEN mi ELSE MonthIndexFrom(date, mi + 1)

MonthIndex(date) == MonthIndexFrom(date, 0)
DayOfMonth(date) == date - DaysBeforeMonth(MonthIndex(date))

Min(a, b) == IF a <= b THEN a ELSE b
Max(a, b) == IF a >= b THEN a ELSE b

\* date + relativedelta(months=k): same day of the month k months later,
\* clamped to the last day of a shorter month
AddMonths(date, k) ==
    LET mi == MonthIndex(date) + k
    IN  DaysBeforeMonth(mi)
          + Min(DayOfMonth(date), DaysInMonth(MonthYear(mi), MonthOfYear(mi)))

\* date + timedelta(weeks=k)
AddWeeks(date, k) == date + 7 * k

NoDate == 0     \* a null DateField / DateTimeField

-----------------------------------------------------------------------------
(* Decimal arithmetic *)

\* round(Decimal(num)/Decimal(den), 2) in cents: Python rounds a Decimal
\* half to even.  den > 0.
RoundHalfEven(num, den) ==
    LET q == num \div den
        r == num % den
    IN  IF 2 * r < den THEN q
        ELSE IF 2 * r > den THEN q + 1
        ELSE IF q % 2 = 0 THEN q ELSE q + 1

\* half away from zero, den > 0
RoundHalfUp(num, den) ==
    LET q == num \div den
        r == num % den
    IN  IF 2 * r < den THEN q
        ELSE IF 2 * r > den THEN q + 1
        ELSE IF num >= 0 THEN q + 1 ELSE q

\* How the database stores an unrounded Decimal in a column of two decimal
\* places: Django quantizes half-even before the write on most backends
\* and leaves the rounding to the server (half away from zero) on others.
DbRoundings == {"half_even", "half_up"}

DbQuantize(num, den, d) ==
    IF d = "half_even" THEN RoundHalfEven(num, den) ELSE RoundHalfUp(num, den)

-----------------------------------------------------------------------------
(* Scheduled-verified mode: rows and inputs *)

Frequencies == {"weekly", "biweekly", "monthly"}
Rates == {0, 50}                              \* interest_rate, in percent
StartDates == {MkDate(2024, 1, 31)}
Todays == {MkDate(2024, 1, 31), MkDate(2024, 2, 20)}

NoUser == "null"
Shopkeeper == "shop1"                         \* request.user of the verify view

\* request bodies of the submit view; the last one carries no payment_proof
Submissions ==
    { [payment_proof |-> "proof1", payment_method |-> "cash",
       transaction_id |-> "", notes |-> ""],
      [payment_proof |-> "proof2", payment_method |-> "bank_transfer",
       transaction_id |-> "tx1", notes |-> "note1"],
      [payment_proof |-> "null", payment_method |-> "cash",
       transaction_id |-> "", notes |-> ""] }

\* request bodies of the verify view
VerifyBodies ==
    { [action |-> "verify", rejection_reason |-> ""],
      [action |-> "reject", rejection_reason |-> "reason1"],
      [action |-> "reject", rejection_reason |-> ""] }

NoPlan ==
    [ total_amount |-> 0, down_payment |-> 0, interest_rate |-> 0,
      number_of_installments |-> 0, frequency |-> "monthly",
      start_date |-> NoDate, end_date |-> NoDate,
      remaining_amount |-> 0, installment_amount |-> 0,
      next_due_date |-> NoDate, status |-> "none", installments_paid |-> 0 ]

NoResp == [op |-> "none", slot |-> 0, code |-> "none"]

\* the two requests that run concurrently
ReqIds == {"a", "b"}

Response(op, s, code) == [op |-> op, slot |-> s, code |-> code]

-----------------------------------------------------------------------------
(* InstallmentPlan *)

\* InstallmentPlan.save of a plan whose in-memory remaining_amount is the
\* Decimal remNum/remDen cents; the result is the row as stored.
SavedPlan(p, remNum, remDen, d) ==
    LET unset == (remNum = 0)
        rn == IF unset THEN p.total_amount - p.down_payment ELSE remNum
        rd == IF unset THEN 1 ELSE remDen
        inst == IF p.installment_amount = 0 /\ p.number_of_installments > 0
                THEN DbQuantize(rn, rd * p.number_of_installments, d)
                ELSE p.installment_amount
    IN  [p EXCEPT !.remaining_amount = DbQuantize(rn, rd, d),
                  !.installment_amount = inst]

\* InstallmentPlan.save of a plan loaded from its row
PlanSave(p, d) == SavedPlan(p, p.remaining_amount, 1, d)

is_overdue(p, now) ==
    IF p.next_due_date # NoDate /\ p.status = "active"
    THEN p.next_due_date < now
    ELSE FALSE

update_status(p, now, d) ==
    PlanSave([p EXCEPT !.status =
                 IF p.remaining_amount <= 0 THEN "completed"
                 ELSE IF is_overdue(p, now) THEN "overdue"
                 ELSE @], d)

\* plan.payments.filter(status='pending').order_by('due_date'): due date of
\* the first row, NoDate when the queryset is empty
PendingOrVerifiedSlots(sl) ==
    {i \in DOMAIN sl : sl[i].status \in {"pending", "verified"}}

PendingSlots(sl) == {i \in DOMAIN sl : sl[i].status = "pending"}

FirstPendingDue(sl) ==
    IF PendingSlots(sl) = {} THEN NoDate
    ELSE LET i == CHOOSE i \in PendingSlots(sl) :
                    \A j \in PendingSlots(sl) : sl[i].due_date <= sl[j].due_date
         IN  sl[i].due_date

-----------------------------------------------------------------------------
(* InstallmentPlanCreateSerializer.create *)

NextDue(date, frequency) ==
    IF frequency = "weekly" THEN AddWeeks(date, 1)
    ELSE IF frequency = "biweekly" THEN AddWeeks(date, 2)
    ELSE AddMonths(date, 1)

\* current_date when the loop creates installment i
RECURSIVE SlotDue(_, _, _)
SlotDue(start, frequency, i) ==
    IF i = 1 THEN start ELSE NextDue(SlotDue(start, frequency, i - 1), frequency)

EndDate(start, frequency, n) ==
    IF frequency = "weekly" THEN AddWeeks(start, n)
    ELSE IF frequency = "biweekly" THEN AddWeeks(start, n * 2)
    ELSE AddMonths(start, n)

\* remaining_amount = principal + principal * (interest_rate / 100), as the
\* fraction RemainingNum / 100 of a cent count
RemainingNum(total, down, rate) == (total - down) * (100 + rate)

\* the quotient cut off after the second decimal
InstallmentAmountTruncated(total, down, rate, n) ==
    RemainingNum(total, down, rate) \div (100 * n)

\* round(installment_amount, 2)
InstallmentAmount(total, down, rate, n) ==
    RoundHalfEven(RemainingNum(total, down, rate), 100 * n)

NewSlot(amount, due) ==
    [ amount |-> amount, due_date |-> due, status |-> "pending",
      payment_proof |-> "null", payment_method |-> "cash",
      transaction_id |-> "null", notes |-> "null",
      verified_by |-> NoUser, verified_at |-> NoDate, payment_date |-> NoDate,
      rejection_reason |-> "null" ]

NewPlan(total, down, rate, n, frequency, start, d) ==
    SavedPlan([ total_amount |-> total, down_payment |-> down,
                interest_rate |-> rate, number_of_installments |-> n,
                frequency |-> frequency, start_date |-> start,
                end_date |-> EndDate(start, frequency, n),
                remaining_amount |-> 0,
                installment_amount |-> InstallmentAmount(total, down, rate, n),
                next_due_date |-> start, status |-> "active",
                installments_paid |-> 0 ],
              RemainingNum(total, down, rate), 100, d)

NewSlots(total, down, rate, n, frequency, start) ==
    [i \in 1..n |-> NewSlot(InstallmentAmount(total, down, rate, n),
                            SlotDue(start, frequency, i))]

\* POST /api/installments/create/ with inputs drawn from the given sets.
\* number_of_installments = 0 makes the division raise before any row is
\* written.
CreatePlanFrom(Totals, Downs, Rs, Ns, Fs, Ss) ==
    /\ plan.status = "none"
    /\ \E total \in Totals, down \in Downs, rate \in Rs, n \in Ns,
          frequency \in Fs, start \in Ss :
          IF n = 0
          THEN /\ resp' = Response("create", 0, "ServerError")
               /\ UNCHANGED <<plan, slots>>
          ELSE /\ plan' = NewPlan(total, down, rate, n, frequency, start, db)
               /\ slots' = NewSlots(total, down, rate, n, frequency, start)
               /\ resp' = Response("create", 0, "ok")
    /\ UNCHANGED <<today, db, reqs, runVars>>

CreatePlan ==
    CreatePlanFrom(1..MaxTotal, 0..1, Rates, 0..MaxInstallments,
                   Frequencies, StartDates)

-----------------------------------------------------------------------------
(* InstallmentPayment and the submit / verify views *)

\* the proof is stored and the status is left as it was
SubmittedSlotKeepsStatus(row, sub) ==
    [row EXCEPT !.payment_proof = sub.payment_proof,
                !.payment_method = sub.payment_method,
                !.transaction_id = sub.transaction_id,
                !.notes = sub.notes]

\* the row written by InstallmentPaymentSubmitView.post
SubmittedSlot(row, sub) ==
    [row EXCEPT !.payment_proof = sub.payment_proof,
                !.payment_method = sub.payment_method,
                !.transaction_id = sub.transaction_id,
                !.notes = sub.notes,
                !.status = "pending"]

\* the row written by verify_payment
VerifiedSlot(row, user, now) ==
    [row EXCEPT !.status = "verified", !.verified_by = user,
                !.verified_at = now, !.payment_date = now]

\* the row written by reject_payment
RejectedSlot(row, reason) ==
    [row EXCEPT !.status = "rejected", !.rejection_reason = reason]

\* the plan row written by verify_payment: p is the plan as loaded, sl the
\* slot rows the pending query sees, amount the amount of the verified slot
PlanDebit(p, amount) ==
    [p EXCEPT !.remaining_amount = @ - amount, !.installments_paid = @ + 1]

VerifiedPlan(p, sl, amount, now, d) ==
    update_status([PlanDebit(p, amount) EXCEPT
                      !.next_due_date = FirstPendingDue(sl)], now, d)

SlotIds == 1..MaxInstallments

\* the guard of the submit view: the payment has already been verified
SubmitCheckDropped(row) == FALSE

SubmitAlreadyVerified(row) == row.status = "verified"

VerifyCheckDropped(row) == FALSE

\* the guard of the verify view: the payment has already been verified
VerifyAlreadyVerified(row) == row.status = "verified"

\* InstallmentPaymentSubmitView.post, run without interleaving
Submit ==
    /\ plan.status # "none"
    /\ \E s \in SlotIds, sub \in Submissions :
          IF s \notin DOMAIN slots
          THEN /\ resp' = Response("submit", s, "NotFound")
               /\ UNCHANGED slots
          ELSE IF SubmitAlreadyVerified(slots[s])
          THEN /\ resp' = Response("submit", s, "AlreadyVerified")
               /\ UNCHANGED slots
          ELSE IF sub.payment_proof = "null"
          THEN /\ resp' = Response("submit", s, "ValidationError")
               /\ UNCHANGED slots
          ELSE /\ slots' = [slots EXCEPT ![s] = SubmittedSlot(@, sub)]
               /\ resp' = Response("submit", s, "ok")
    /\ UNCHANGED <<plan, today, db, reqs, runVars>>

\* InstallmentPaymentVerifyView.post, run without interleaving
VerifyOrReject ==
    /\ plan.status # "none"
    /\ \E s \in SlotIds, body \in VerifyBodies :
          IF s \notin DOMAIN slots
          THEN /\ resp' = Response(body.action, s, "NotFound")
               /\ UNCHANGED <<plan, slots>>
          ELSE IF VerifyAlreadyVerified(slots[s])
          THEN /\ resp' = Response(body.action, s, "AlreadyVerified")
               /\ UNCHANGED <<plan, slots>>
          ELSE IF body.action = "reject" /\ body.rejection_reason = ""
          THEN /\ resp' = Response(body.action, s, "ValidationError")
               /\ UNCHANGED <<plan, slots>>
          ELSE IF body.action = "verify"
          THEN /\ slots' = [slots EXCEPT ![s] = VerifiedSlot(@, Shopkeeper, today)]
               /\ plan' = VerifiedPlan(plan, slots', slots[s].amount, today, db)
               /\ resp' = Response("verify", s, "ok")
          ELSE /\ slots' = [slots EXCEPT ![s] = RejectedSlot(@, body.rejection_reason)]
               /\ resp' = Response("reject", s, "ok")
               /\ UNCHANGED plan
    /\ UNCHANGED <<today, db, reqs, runVars>>

\* InstallmentPlan.STATUS_CHOICES
PlanStatuses ==
    {"pending", "active", "completed", "overdue", "defaulted", "cancelled"}

\* PATCH /api/installments/{id}/ with a status: InstallmentPlanSerializer
\* leaves status writable, the update sets the field and InstallmentPlan.save
\* runs
UpdatePlanStatus ==
    /\ plan.status # "none"
    /\ \E st \in PlanStatuses :
          /\ plan' = PlanSave([plan EXCEPT !.status = st], db)
          /\ resp' = Response("update_plan", 0, "ok")
    /\ UNCHANGED <<slots, today, db, reqs, runVars>>

\* the date changes
TickTo(Dates) ==
    /\ \E now \in Dates : now > today /\ today' = now
    /\ UNCHANGED <<plan, slots, db, resp, reqs, runVars>>

Tick == TickTo(Todays)

-----------------------------------------------------------------------------
(* Scheduled mode, concurrent requests.  Each request runs the view one    *)
(* database statement at a time; every save() writes the whole row from    *)
(* the instance the request holds, and nothing is locked or wrapped in a   *)
(* transaction.                                                            *)

IdleReq ==
    [ pc |-> "idle", op |-> "none", slot |-> 0,
      sub |-> CHOOSE sub \in Submissions : sub.payment_proof = "null",
      reason |-> "", row |-> NewSlot(0, NoDate), planRow |-> NoPlan,
      code |-> "none" ]

\* InstallmentPayment.objects.get(...), the status check and the
\* serializer's validation of the submit view
SubmitGet(r) ==
    /\ plan.status # "none"
    /\ reqs[r].pc = "idle"
    /\ \E s \in DOMAIN slots, sub \in Submissions :
          LET q == [reqs[r] EXCEPT !.op = "submit", !.slot = s, !.sub = sub,
                                   !.row = slots[s]]
          IN  reqs' = [reqs EXCEPT ![r] =
                 IF SubmitAlreadyVerified(slots[s])
                 THEN [q EXCEPT !.pc = "done", !.code = "AlreadyVerified"]
                 ELSE IF sub.payment_proof = "null"
                 THEN [q EXCEPT !.pc = "done", !.code = "ValidationError"]
                 ELSE [q EXCEPT !.pc = "save_slot"]]
    /\ UNCHANGED <<plan, slots, today, db, resp, runVars>>

\* InstallmentPayment.objects.get(...), the status check and the
\* serializer's validation of the verify view
VerifyGet(r) ==
    /\ plan.status # "none"
    /\ reqs[r].pc = "idle"
    /\ \E s \in DOMAIN slots, body \in VerifyBodies :
          LET q == [reqs[r] EXCEPT !.op = body.action, !.slot = s,
                                   !.reason = body.rejection_reason,
                                   !.row = slots[s]]
          IN  reqs' = [reqs EXCEPT ![r] =
                 IF VerifyAlreadyVerified(slots[s])
                 THEN [q EXCEPT !.pc = "done", !.code = "AlreadyVerified"]
                 ELSE IF body.action = "reject" /\ body.rejection_reason = ""
                 THEN [q EXCEPT !.pc = "done", !.code = "ValidationError"]
                 ELSE [q EXCEPT !.pc = "save_slot"]]
    /\ UNCHANGED <<plan, slots, today, db, resp, runVars>>

\* payment.save() of the submit view, of verify_payment and of
\* reject_payment: the row is written from the instance loaded by get()
SlotSave(r) ==
    /\ reqs[r].pc = "save_slot"
    /\ LET q == reqs[r]
           row == IF q.op = "submit" THEN SubmittedSlot(q.row, q.sub)
                  ELSE IF q.op = "verify" THEN VerifiedSlot(q.row, Shopkeeper, today)
                  ELSE RejectedSlot(q.row, q.reason)
       IN  /\ slots' = [slots EXCEPT ![q.slot] = row]
           /\ reqs' = [reqs EXCEPT ![r] =
                 IF q.op = "verify"
                 THEN [q EXCEPT !.pc = "load_plan", !.row = row]
                 ELSE [q EXCEPT !.pc = "done", !.row = row, !.code = "ok"]]
    /\ UNCHANGED <<plan, today, db, resp, runVars>>

\* verify_payment: plan = self.installment_plan loads the plan row; the
\* balance and the counter are changed on the instance
PlanLoad(r) ==
    /\ reqs[r].pc = "load_plan"
    /\ reqs' = [reqs EXCEPT ![r].pc = "pending_exists",
                            ![r].planRow = PlanDebit(plan, reqs[r].row.amount)]
    /\ UNCHANGED <<plan, slots, today, db, resp, runVars>>

\* verify_payment: remaining_payments.exists()
PendingExists(r) ==
    /\ reqs[r].pc = "pending_exists"
    /\ reqs' = [reqs EXCEPT ![r] =
          IF PendingSlots(slots) # {}
          THEN [@ EXCEPT !.pc = "pending_first"]
          ELSE [@ EXCEPT !.pc = "save_plan", !.planRow.next_due_date = NoDate]]
    /\ UNCHANGED <<plan, slots, today, db, resp, runVars>>

\* verify_payment: remaining_payments.first().due_date, a second query;
\* first() is None when no pending row is left, and .due_date then raises
PendingFirst(r) ==
    /\ reqs[r].pc = "pending_first"
    /\ reqs' = [reqs EXCEPT ![r] =
          IF PendingSlots(slots) = {}
          THEN [@ EXCEPT !.pc = "done", !.code = "ServerError"]
          ELSE [@ EXCEPT !.pc = "save_plan",
                         !.planRow.next_due_date = FirstPendingDue(slots)]]
    /\ UNCHANGED <<plan, slots, today, db, resp, runVars>>

\* verify_payment: plan.update_status(), which saves the whole plan row
PlanUpdateStatus(r) ==
    /\ reqs[r].pc = "save_plan"
    /\ plan' = update_status(reqs[r].planRow, today, db)
    /\ reqs' = [reqs EXCEPT ![r].pc = "done", ![r].code = "ok",
                            ![r].planRow = plan']
    /\ UNCHANGED <<slots, today, db, resp, runVars>>

\* plans of the concurrent runs: amounts that no one or two verifications
\* bring to exactly zero
RaceTotals == {3, 5}

RaceCreatePlan ==
    CreatePlanFrom(RaceTotals, {0}, {0}, 2..MaxInstallments,
                   {"weekly", "monthly"}, StartDates)

RaceNext ==
    \/ RaceCreatePlan
    \/ Tick
    \/ \E r \in ReqIds :
          \/ SubmitGet(r)
          \/ VerifyGet(r)
          \/ SlotSave(r)
          \/ PlanLoad(r)
          \/ PendingExists(r)
          \/ PendingFirst(r)
          \/ PlanUpdateStatus(r)


-----------------------------------------------------------------------------
(* Running-balance mode: InstallmentRecord and PaymentRecord *)

RecordIds == {"rec1"}
MonthlyAmounts == {0, 1}                      \* monthly_installment, in cents
PayDates == {MkDate(2024, 1, 31), MkDate(2024, 2, 20)}

\* the two requests that run concurrently
JobIds == {"a", "b"}

\* installment.payments.aggregate(total=Sum('amount_paid'))['total'] or 0
PaymentsOf(ps, rid) == {e \in ps : e.installment_record = rid}

RECURSIVE SumPaid(_)
SumPaid(S) ==
    IF S = {} THEN 0
    ELSE LET e == CHOOSE e \in S : TRUE
         IN  e.amount_paid + SumPaid(S \ {e})

TotalPayments(ps, rid) == SumPaid(PaymentsOf(ps, rid))

\* InstallmentRecord.save of a row that has its remaining_amount set
RecordSave(row) ==
    IF row.remaining_amount <= 0
    THEN [row EXCEPT !.remaining_amount = 0, !.is_completed = TRUE,
                     !.status = "completed"]
    ELSE row

\* a recalculation that never reopens a record
RecalculateKeepsCompleted(row, total) ==
    LET rem == row.total_cost - row.advance_payment - total
    IN  RecordSave([row EXCEPT !.total_paid = total + row.advance_payment,
                               !.remaining_amount = IF rem <= 0 THEN 0 ELSE rem,
                               !.is_completed = (rem <= 0) \/ @])

\* PaymentRecord._update_installment: the row written for the instance
\* `row` when the aggregate of the payments is `total`
_update_installment(row, total) ==
    LET rem == row.total_cost - row.advance_payment - total
    IN  RecordSave([row EXCEPT !.total_paid = total + row.advance_payment,
                               !.remaining_amount = IF rem <= 0 THEN 0 ELSE rem,
                               !.is_completed = (rem <= 0)])

\* PaymentRecord._recalculate_installment
_recalculate_installment(row, total) ==
    LET rem == row.total_cost - row.advance_payment - total
    IN  RecordSave([row EXCEPT !.total_paid = total + row.advance_payment,
                               !.remaining_amount = IF rem <= 0 THEN 0 ELSE rem,
                               !.is_completed = (rem <= 0)])

\* InstallmentRecordCreateSerializer.validate
RecordTermsValid(cost, advance, monthly) == ~ (advance >= cost) /\ ~ (monthly <= 0)

\* InstallmentRecordCreateSerializer.create
NewRecord(cost, advance, monthly, start) ==
    RecordSave([ total_cost |-> cost, advance_payment |-> advance,
                 monthly_installment |-> monthly,
                 remaining_amount |-> cost - advance, total_paid |-> advance,
                 start_date |-> start, status |-> "active",
                 is_completed |-> FALSE ])

\* a validation that lets a zero amount through
AmountNonNegative(amount) == ~ (amount < 0)

\* PaymentRecordCreateSerializer.validate_amount_paid
AmountValid(amount) == ~ (amount <= 0)

NewPayment(id, rid, amount, date) ==
    [ id |-> id, installment_record |-> rid, amount_paid |-> amount,
      payment_date |-> date ]

\* POST installments/ with inputs drawn from the given sets
CreateRecordFrom(Ids, Costs, Advances, Monthlies, Starts) ==
    /\ \E rid \in Ids \ DOMAIN records,
          cost \in Costs, advance \in Advances,
          monthly \in Monthlies, start \in Starts :
          IF RecordTermsValid(cost, advance, monthly)
          THEN /\ records' = [r \in DOMAIN records \cup {rid} |->
                                IF r = rid
                                THEN NewRecord(cost, advance, monthly, start)
                                ELSE records[r]]
               /\ resp' = Response("create_record", 0, "ok")
          ELSE /\ resp' = Response("create_record", 0, "ValidationError")
               /\ UNCHANGED records
    /\ UNCHANGED <<schedVars, today, db, payments, nextEvent, jobs>>

CreateRecord ==
    CreateRecordFrom(RecordIds, 1..MaxCost, 0..MaxCost, MonthlyAmounts,
                     StartDates)

\* a request that posts a payment of `amount` to record rid, and its answer
PaymentResponse(op, rid, amount, code) ==
    [ op |-> op, slot |-> 0, code |-> code,
      installment_record |-> rid, amount_paid |-> amount ]

\* PaymentRecord.save of a new event, run without interleaving: the insert,
\* then _update_installment on the record the serializer loaded
PostedPayments(rid, amount, date) ==
    payments \cup {NewPayment(nextEvent + 1, rid, amount, date)}

PostPayment(op, rid, amount, date) ==
    /\ payments' = PostedPayments(rid, amount, date)
    /\ nextEvent' = nextEvent + 1
    /\ records' = [records EXCEPT ![rid] =
                      _update_installment(@, TotalPayments(payments', rid))]
    /\ resp' = PaymentResponse(op, rid, amount, "ok")

\* amount_paid of the requests, in cents
PayAmounts == (-1)..MaxPay

\* POST installments/{id}/add_payment/ with inputs drawn from the given sets
AddPaymentFrom(Amounts, Dates) ==
    /\ nextEvent < MaxEvents
    /\ \E rid \in DOMAIN records, amount \in Amounts, date \in Dates :
          IF records[rid].is_completed
          THEN /\ resp' = PaymentResponse("add_payment", rid, amount,
                                          "AlreadyCompleted")
               /\ UNCHANGED <<records, payments, nextEvent>>
          ELSE IF ~ AmountValid(amount)
          THEN /\ resp' = PaymentResponse("add_payment", rid, amount,
                                          "ValidationError")
               /\ UNCHANGED <<records, payments, nextEvent>>
          ELSE PostPayment("add_payment", rid, amount, date)
    /\ UNCHANGED <<schedVars, today, db, jobs>>

AddPayment == AddPaymentFrom(PayAmounts, PayDates)

\* POST payments/ with inputs drawn from the given sets
CreatePaymentFrom(Amounts, Dates) ==
    /\ nextEvent < MaxEvents
    /\ \E rid \in DOMAIN records, amount \in Amounts, date \in Dates :
          IF ~ AmountValid(amount)
          THEN /\ resp' = PaymentResponse("create_payment", rid, amount,
                                          "ValidationError")
               /\ UNCHANGED <<records, payments, nextEvent>>
          ELSE PostPayment("create_payment", rid, amount, date)
    /\ UNCHANGED <<schedVars, today, db, jobs>>

CreatePayment == CreatePaymentFrom(PayAmounts, PayDates)

\* DELETE payments/{id}/: PaymentRecord.delete, run without interleaving
DeletePayment ==
    /\ \E e \in payments :
          /\ payments' = payments \ {e}
          /\ records' = [records EXCEPT ![e.installment_record] =
                _recalculate_installment(@,
                    TotalPayments(payments', e.installment_record))]
          /\ resp' = Response("delete_payment", 0, "ok")
    /\ UNCHANGED <<schedVars, today, db, nextEvent, jobs>>

-----------------------------------------------------------------------------
(* Running-balance mode: status and amount due.  All records belong to one *)
(* customer.                                                               *)

\* InstallmentRecord.STATUS_CHOICES
RecordStatuses == {"active", "completed", "overdue", "paused"}

\* PATCH installments/{id}/ with a status: the serializer sets the field and
\* InstallmentRecord.save runs
UpdateRecordStatus ==
    /\ \E rid \in DOMAIN records, st \in RecordStatuses :
          /\ records' = [records EXCEPT ![rid] =
                            RecordSave([@ EXCEPT !.status = st])]
          /\ resp' = Response("update_record", 0, "ok")
    /\ UNCHANGED <<schedVars, today, db, payments, nextEvent, jobs>>

\* PUT / PATCH installments/{id}/ with total_cost and advance_payment:
\* InstallmentRecordSerializer has no validate, the update sets the fields
\* and InstallmentRecord.save runs
UpdateRecordTermsFrom(Costs, Advances) ==
    /\ \E rid \in DOMAIN records, cost \in Costs, advance \in Advances :
          /\ records' = [records EXCEPT ![rid] =
                            RecordSave([@ EXCEPT !.total_cost = cost,
                                                 !.advance_payment = advance])]
          /\ resp' = Response("update_terms", 0, "ok")
    /\ UNCHANGED <<schedVars, today, db, payments, nextEvent, jobs>>

\* PUT / PATCH payments/{id}/ with installment_record and amount_paid:
\* PaymentRecordSerializer leaves both writable and validates neither;
\* PaymentRecord.save writes the event and runs _update_installment on the
\* record the event now belongs to
UpdatePaymentFrom(Amounts) ==
    /\ \E e \in payments, rid \in DOMAIN records, amount \in Amounts :
          /\ payments' = (payments \ {e})
                            \cup {[e EXCEPT !.installment_record = rid,
                                            !.amount_paid = amount]}
          /\ records' = [records EXCEPT ![rid] =
                            _update_installment(@, TotalPayments(payments', rid))]
          /\ resp' = PaymentResponse("update_payment", rid, amount, "ok")
    /\ UNCHANGED <<schedVars, today, db, nextEvent, jobs>>

\* self.payments.order_by('-payment_date').first().payment_date
LastPaymentDate(ps, rid) ==
    CHOOSE d \in {e.payment_date : e \in PaymentsOf(ps, rid)} :
       \A e \in PaymentsOf(ps, rid) : e.payment_date <= d

\* days without payment after which a record is overdue
OverdueDays == 35

\* a status that is overdue from the threshold day on
CalculatedStatusFromThreshold(row, ps, rid, now) ==
    IF row.is_completed THEN "completed"
    ELSE IF row.status = "paused" THEN "paused"
    ELSE IF PaymentsOf(ps, rid) # {}
    THEN (IF now - LastPaymentDate(ps, rid) >= OverdueDays
          THEN "overdue" ELSE "active")
    ELSE (IF now - row.start_date >= OverdueDays /\ row.remaining_amount > 0
          THEN "overdue" ELSE "active")

\* InstallmentRecord.calculated_status on the date `now`
calculated_status(row, ps, rid, now) ==
    IF row.is_completed THEN "completed"
    ELSE IF row.status = "paused" THEN "paused"
    ELSE IF PaymentsOf(ps, rid) # {}
    THEN (IF now - LastPaymentDate(ps, rid) > OverdueDays
          THEN "overdue" ELSE "active")
    ELSE (IF now - row.start_date > OverdueDays /\ row.remaining_amount > 0
          THEN "overdue" ELSE "active")

\* today.replace(day=1)
FirstOfMonth(date) == DaysBeforeMonth(MonthIndex(date)) + 1

\* self.installment_records.filter(is_completed=False)
ActiveRecords(recs) == {rid \in DOMAIN recs : ~ recs[rid].is_completed}

\* aggregate(total=Sum('monthly_installment')) over the records in S
RECURSIVE SumMonthly(_, _)
SumMonthly(recs, S) ==
    IF S = {} THEN 0
    ELSE LET rid == CHOOSE rid \in S : TRUE
         IN  recs[rid].monthly_installment + SumMonthly(recs, S \ {rid})

\* the payments of a record dated up to `now`, whatever the month
PaymentsUpToToday(ps, rid, now) ==
    {e \in PaymentsOf(ps, rid) : e.payment_date <= now}

\* record.payments.filter(payment_date__gte=first_day_of_month,
\*                        payment_date__lte=today)
PaymentsThisMonth(ps, rid, now) ==
    {e \in PaymentsOf(ps, rid) :
        e.payment_date >= FirstOfMonth(now) /\ e.payment_date <= now}

\* the loop that adds up record_payments over the records in S
RECURSIVE SumThisMonth(_, _, _)
SumThisMonth(ps, S, now) ==
    IF S = {} THEN 0
    ELSE LET rid == CHOOSE rid \in S : TRUE
         IN  SumPaid(PaymentsThisMonth(ps, rid, now))
                + SumThisMonth(ps, S \ {rid}, now)

\* Customer.total_monthly_installment on the date `now`
total_monthly_installment(recs, ps, now) ==
    Max(SumMonthly(recs, ActiveRecords(recs))
           - SumThisMonth(ps, ActiveRecords(recs), now), 0)

IdleJob ==
    [ pc |-> "idle", op |-> "none", rid |-> "none",
      event |-> NewPayment(0, "none", 0, NoDate),
      row |-> NewRecord(1, 0, 1, NoDate), total |-> 0, code |-> "none" ]

-----------------------------------------------------------------------------
(* Running-balance mode, concurrent requests.  Each request runs one       *)
(* database statement at a time; installment.save() writes the whole row   *)
(* from the instance the request loaded.                                   *)

\* add_payment: self.get_object() and the is_completed check
AddPaymentGet(j) ==
    /\ jobs[j].pc = "idle"
    /\ nextEvent < MaxEvents
    /\ \E rid \in DOMAIN records, amount \in 0..MaxPay, date \in PayDates :
          LET q == [jobs[j] EXCEPT !.op = "add_payment", !.rid = rid,
                                   !.event = NewPayment(0, rid, amount, date)]
          IN  jobs' = [jobs EXCEPT ![j] =
                 IF records[rid].is_completed
                 THEN [q EXCEPT !.pc = "done", !.code = "AlreadyCompleted"]
                 ELSE [q EXCEPT !.pc = "validate"]]
    /\ UNCHANGED <<schedVars, today, db, resp, records, payments, nextEvent>>

\* add_payment: serializer.is_valid(), which loads the record the new
\* event will refer to
AddPaymentValidate(j) ==
    /\ jobs[j].pc = "validate"
    /\ jobs' = [jobs EXCEPT ![j] =
          IF ~ AmountValid(jobs[j].event.amount_paid)
          THEN [@ EXCEPT !.pc = "done", !.code = "ValidationError"]
          ELSE [@ EXCEPT !.pc = "insert", !.row = records[jobs[j].rid]]]
    /\ UNCHANGED <<schedVars, today, db, resp, records, payments, nextEvent>>

\* POST payments/: serializer.is_valid(), which loads the record
CreatePaymentValidate(j) ==
    /\ jobs[j].pc = "idle"
    /\ nextEvent < MaxEvents
    /\ \E rid \in DOMAIN records, amount \in 0..MaxPay, date \in PayDates :
          LET q == [jobs[j] EXCEPT !.op = "create_payment", !.rid = rid,
                                   !.event = NewPayment(0, rid, amount, date)]
          IN  jobs' = [jobs EXCEPT ![j] =
                 IF ~ AmountValid(amount)
                 THEN [q EXCEPT !.pc = "done", !.code = "ValidationError"]
                 ELSE [q EXCEPT !.pc = "insert", !.row = records[rid]]]
    /\ UNCHANGED <<schedVars, today, db, resp, records, payments, nextEvent>>

\* PaymentRecord.save: super().save() inserts the event
PaymentInsert(j) ==
    /\ jobs[j].pc = "insert"
    /\ LET e == [jobs[j].event EXCEPT !.id = nextEvent + 1]
       IN  /\ payments' = payments \cup {e}
           /\ jobs' = [jobs EXCEPT ![j].pc = "aggregate", ![j].event = e]
    /\ nextEvent' = nextEvent + 1
    /\ UNCHANGED <<schedVars, today, db, resp, records>>

\* DELETE payments/{id}/: self.get_object()
DeleteGet(j) ==
    /\ jobs[j].pc = "idle"
    /\ \E e \in payments :
          jobs' = [jobs EXCEPT ![j].pc = "load_record",
                               ![j].op = "delete_payment",
                               ![j].rid = e.installment_record,
                               ![j].event = e]
    /\ UNCHANGED <<schedVars, today, db, resp, records, payments, nextEvent>>

\* PaymentRecord.delete: installment = self.installment_record
DeleteLoadRecord(j) ==
    /\ jobs[j].pc = "load_record"
    /\ jobs' = [jobs EXCEPT ![j].pc = "delete_row",
                            ![j].row = records[jobs[j].rid]]
    /\ UNCHANGED <<schedVars, today, db, resp, records, payments, nextEvent>>

\* PaymentRecord.delete: super().delete(); a row already gone is no error
DeleteRow(j) ==
    /\ jobs[j].pc = "delete_row"
    /\ payments' = payments \ {jobs[j].event}
    /\ jobs' = [jobs EXCEPT ![j].pc = "aggregate"]
    /\ UNCHANGED <<schedVars, today, db, resp, records, nextEvent>>

\* installment.payments.aggregate(total=Sum('amount_paid'))
PaymentAggregate(j) ==
    /\ jobs[j].pc = "aggregate"
    /\ jobs' = [jobs EXCEPT ![j].pc = "save_record",
                            ![j].total = TotalPayments(payments, jobs[j].rid)]
    /\ UNCHANGED <<schedVars, today, db, resp, records, payments, nextEvent>>

\* installment.save() at the end of _update_installment and of
\* _recalculate_installment
RecordWrite(j) ==
    /\ jobs[j].pc = "save_record"
    /\ records' = [records EXCEPT ![jobs[j].rid] =
          IF jobs[j].op = "delete_payment"
          THEN _recalculate_installment(jobs[j].row, jobs[j].total)
          ELSE _update_installment(jobs[j].row, jobs[j].total)]
    /\ jobs' = [jobs EXCEPT ![j].pc = "done", ![j].code = "ok",
                            ![j].row = records'[jobs[j].rid]]
    /\ UNCHANGED <<schedVars, today, db, resp, payments, nextEvent>>

\* the record and its first events exist before the two requests start
RunRaceSetup ==
    /\ \A j \in JobIds : jobs[j].pc = "idle"
    /\ (CreateRecord \/ CreatePaymentFrom(0..MaxPay, PayDates))

RunRaceNext ==
    \/ RunRaceSetup
    \/ \E j \in JobIds :
          \/ AddPaymentGet(j)
          \/ AddPaymentValidate(j)
          \/ CreatePaymentValidate(j)
          \/ PaymentInsert(j)
          \/ DeleteGet(j)
          \/ DeleteLoadRecord(j)
          \/ DeleteRow(j)
          \/ PaymentAggregate(j)
          \/ RecordWrite(j)

-----------------------------------------------------------------------------

Init ==
    /\ plan = NoPlan
    /\ slots = << >>
    /\ today = MkDate(2024, 1, 31)
    /\ db \in DbRoundings
    /\ resp = NoResp
    /\ reqs = [r \in ReqIds |-> IdleReq]
    /\ records = << >>
    /\ payments = {}
    /\ nextEvent = 0
    /\ jobs = [j \in JobIds |-> IdleJob]

\* scheduled mode, one request at a time
Next == CreatePlan \/ Submit \/ VerifyOrReject \/ Tick

Spec == Init /\ [][Next]_vars

\* scheduled mode, one request at a time, on monthly plans without interest
\* or down payment created and used on one day
PlainCreatePlan ==
    CreatePlanFrom(1..MaxTotal, {0}, {0}, 1..MaxInstallments, {"monthly"},
                   StartDates)

PlainNext == PlainCreatePlan \/ Submit \/ VerifyOrReject

SpecPlain == Init /\ [][PlainNext]_vars

\* plan creation alone, over a grid of small inputs and over the plan of
\* 12000.00 with 2000.00 down in 10 monthly installments from 2024-01-15
CreateRates == {0, 25, 50}

CreateStartDates ==
    { MkDate(2024, 1, 15), MkDate(2024, 1, 29), MkDate(2024, 1, 30),
      MkDate(2024, 1, 31), MkDate(2025, 1, 31) }

GridCreatePlan ==
    CreatePlanFrom(1..MaxTotal, 0..MaxTotal, CreateRates, 0..MaxCount,
                   Frequencies, CreateStartDates)

ScenarioCreatePlan ==
    CreatePlanFrom({1200000}, {200000}, {0}, {10}, {"monthly"},
                   {MkDate(2024, 1, 15)})

CreateNext == GridCreatePlan \/ ScenarioCreatePlan

SpecCreate == Init /\ [][CreateNext]_vars

\* scheduled mode, two requests interleaved statement by statement
SpecRace == Init /\ [][RaceNext]_vars

\* running-balance mode, one request at a time
RunNext == CreateRecord \/ AddPayment \/ CreatePayment \/ DeletePayment

SpecRun == Init /\ [][RunNext]_vars

\* running-balance mode, two requests interleaved statement by statement
SpecRunRace == Init /\ [][RunRaceNext]_vars

\* running-balance mode with dates: one record, payments dated before the
\* start date and after it, pauses, and days around the overdue threshold
StatusPayDates == {MkDate(2024, 1, 1), MkDate(2024, 2, 20)}

StatusTodays ==
    { MkDate(2024, 3, 6), MkDate(2024, 3, 7), MkDate(2024, 3, 26),
      MkDate(2024, 3, 27) }

StatusCreateRecord ==
    CreateRecordFrom(RecordIds, 2..MaxCost, {0}, {1}, StartDates)

StatusCreatePayment == CreatePaymentFrom(1..MaxPay, StatusPayDates)

StatusTick == TickTo(StatusTodays)

StatusNext ==
    \/ StatusCreateRecord
    \/ StatusCreatePayment
    \/ DeletePayment
    \/ UpdateRecordStatus
    \/ StatusTick

SpecStatus == Init /\ [][StatusNext]_vars

\* running-balance mode, two records of the customer, payments dated in
\* January and February 2024, and dates in February and March
DueRecordIds == {"rec1", "rec2"}

DuePayDates == {MkDate(2024, 1, 31), MkDate(2024, 2, 1), MkDate(2024, 2, 20)}

DueTodays == {MkDate(2024, 2, 10), MkDate(2024, 2, 29), MkDate(2024, 3, 1)}

DueCreateRecord ==
    CreateRecordFrom(DueRecordIds, {3}, {0}, {1, 2}, StartDates)

DueCreatePayment == CreatePaymentFrom({1, 2}, DuePayDates)

DueTick == TickTo(DueTodays)

DueNext == DueCreateRecord \/ DueCreatePayment \/ DueTick

SpecDue == Init /\ [][DueNext]_vars

\* Scheduled mode with the plan's status edited between the calls: one
\* plan of two slots, weekly (second slot due 7 February) or monthly (due
\* 29 February), verified on 31 January or 20 February
OverdueCreatePlan ==
    CreatePlanFrom({2}, {0}, {0}, {2}, {"weekly", "monthly"}, StartDates)

OverdueNext ==
    \/ OverdueCreatePlan
    \/ Submit
    \/ VerifyOrReject
    \/ UpdatePlanStatus
    \/ Tick

SpecOverdue == Init /\ [][OverdueNext]_vars

\* Running-balance mode with records and payment events edited: two
\* records of one customer
EditCreateRecord == CreateRecordFrom(DueRecordIds, {2}, {0}, {1}, StartDates)

EditCreatePayment == CreatePaymentFrom({1}, StartDates)

EditUpdatePayment == UpdatePaymentFrom({1, 2})

EditUpdateTerms == UpdateRecordTermsFrom({1, 2}, {0, 1})

EditNext ==
    \/ EditCreateRecord
    \/ EditCreatePayment
    \/ DeletePayment
    \/ EditUpdatePayment
    \/ EditUpdateTerms

SpecEdit == Init /\ [][EditNext]_vars

-----------------------------------------------------------------------------
(* Scheduled mode, one request at a time: properties *)

VerifiedSlots(sl) == {i \in DOMAIN sl : sl[i].status = "verified"}

RECURSIVE SumAmounts(_, _)
SumAmounts(sl, S) ==
    IF S = {} THEN 0
    ELSE LET i == CHOOSE i \in S : TRUE
         IN  sl[i].amount + SumAmounts(sl, S \ {i})

\* slot s is verified by this step
BecomesVerified(s) ==
    /\ s \in DOMAIN slots /\ s \in DOMAIN slots'
    /\ slots[s].status # "verified"
    /\ slots'[s].status = "verified"

\* C1: every successful verify of a slot that is not verified leaves
\* remaining_amount at its previous value minus the slot's amount and
\* installments_paid at its previous value plus one, the verification that
\* brings the balance to zero included.
C1_VerifyDecrementsBalance ==
    [][\A s \in SlotIds :
          BecomesVerified(s) =>
             /\ plan'.remaining_amount = plan.remaining_amount - slots[s].amount
             /\ plan'.installments_paid = plan.installments_paid + 1]_vars

\* C2: in every state after createPlan, remaining_amount equals
\* total_amount - down_payment - (sum of the amounts of the verified slots),
\* is never negative, and a balance brought to zero means status completed.
\* Stated for the plans created without interest, where total_amount -
\* down_payment is the whole amount financed.
C2_RemainingIsTotalMinusVerified ==
    (plan.status # "none" /\ plan.interest_rate = 0) =>
       /\ plan.remaining_amount =
             plan.total_amount - plan.down_payment
                - SumAmounts(slots, VerifiedSlots(slots))
       /\ plan.remaining_amount >= 0
       /\ (plan.remaining_amount = 0 /\ plan.installments_paid > 0
              => plan.status = "completed")

\* C3: a slot becomes verified only by a successful verify call on it, stays
\* verified (and untouched) under every later call, and remaining_amount
\* goes down by the slot's amount in the step that verifies it and in no
\* other step: exactly once, whatever reject / resubmit cycles came before.
C3_VerifiedOnlyByVerifyOnce ==
    [][/\ \A s \in SlotIds :
             /\ BecomesVerified(s) =>
                   /\ resp' = Response("verify", s, "ok")
                   /\ plan'.remaining_amount
                         = plan.remaining_amount - slots[s].amount
             /\ (s \in DOMAIN slots /\ slots[s].status = "verified")
                   => slots'[s] = slots[s]
       /\ (plan.status # "none" /\ ~ \E s \in SlotIds : BecomesVerified(s))
             => plan'.remaining_amount = plan.remaining_amount]_vars

\* C8: submit, verify and reject applied to a verified slot each fail with
\* AlreadyVerified and leave the slot rows and the plan row unchanged.
\* (A step that keeps the date and changes some variable is a call of the
\* submit or the verify view, and resp' is its response.)
C8_VerifiedSlotRejectsCalls ==
    [][(today' = today /\ plan.status # "none") =>
          \A s \in DOMAIN slots :
             (slots[s].status = "verified" /\ resp'.slot = s) =>
                /\ resp'.code = "AlreadyVerified"
                /\ slots' = slots
                /\ plan' = plan]_vars

C8_Witness ==
    \E s \in DOMAIN slots :
       /\ slots[s].status = "verified"
       /\ resp = Response("submit", s, "AlreadyVerified")

C21_SubmitRejectNoBalanceEffect ==
    [][(today' = today /\ plan.status # "none" /\ resp'.code = "ok"
          /\ resp'.op \in {"submit", "reject"}) =>
          LET s == resp'.slot
          IN  /\ s \in DOMAIN slots
              /\ DOMAIN slots' = DOMAIN slots
              /\ resp'.op = "submit" =>
                    \E sub \in Submissions :
                       /\ sub.payment_proof # "null"
                       /\ slots'[s] =
                             [slots[s] EXCEPT
                                !.payment_proof = sub.payment_proof,
                                !.payment_method = sub.payment_method,
                                !.transaction_id = sub.transaction_id,
                                !.notes = sub.notes,
                                !.status = "pending"]
              /\ resp'.op = "reject" =>
                    \E body \in VerifyBodies :
                       /\ body.action = "reject"
                       /\ slots'[s] =
                             [slots[s] EXCEPT
                                !.status = "rejected",
                                !.rejection_reason = body.rejection_reason]
              /\ \A i \in DOMAIN slots \ {s} : slots'[i] = slots[i]
              /\ plan'.remaining_amount = plan.remaining_amount
              /\ plan'.installments_paid = plan.installments_paid
              /\ plan'.status = plan.status]_vars

\* a submitted slot has just been rejected while the other slot of the plan
\* is verified
C21_Witness ==
    \E s \in DOMAIN slots :
       /\ resp = Response("reject", s, "ok")
       /\ slots[s].status = "rejected"
       /\ slots[s].payment_proof # "null"
       /\ plan.installments_paid = 1

\* C22: whenever a verify leaves remaining_amount > 0 and the recomputed
\* next_due_date strictly before the current date, the plan's status after
\* that verify is overdue, whatever the status was before the call; when
\* next_due_date is today or later, or null, verify does not set overdue.
C22_VerifyFlagsOverdue ==
    [][\A s \in SlotIds :
          BecomesVerified(s) =>
             LET late == /\ plan'.next_due_date # NoDate
                         /\ plan'.next_due_date < today
             IN  /\ (plan'.remaining_amount > 0 /\ late)
                       => plan'.status = "overdue"
                 /\ (~ late /\ plan.status # "overdue")
                       => plan'.status # "overdue"]_vars

\* C23: once all N slots of a plan have been verified, in any order and
\* with any reject / resubmit cycles in between, the plan's status is
\* completed, its remaining_amount is zero and its next_due_date is null,
\* for every P, D, r and N accepted at creation.
C23_AllVerifiedMeansCompleted ==
    (plan.status # "none" /\ VerifiedSlots(slots) = DOMAIN slots) =>
       /\ plan.status = "completed"
       /\ plan.remaining_amount = 0
       /\ plan.next_due_date = NoDate

\* C24: in every state reached by sequential submit / verify / reject calls,
\* remaining_amount plus the sum of the amounts of the verified slots equals
\* the remaining_amount fixed at creation (principal - down payment +
\* interest, as stored), and remaining_amount never increases from one
\* state to the next.
C24_Conservation ==
    /\ [](plan.status # "none" =>
             plan.remaining_amount + SumAmounts(slots, VerifiedSlots(slots))
                = DbQuantize(RemainingNum(plan.total_amount, plan.down_payment,
                                          plan.interest_rate), 100, db))
    /\ [][plan.status # "none" =>
             plan'.remaining_amount <= plan.remaining_amount]_vars

\* C25: in every state reached by sequential submit / verify / reject calls,
\* next_due_date is the due date of the earliest slot whose status is
\* pending, or null when no slot is pending; also after a reject of the
\* earliest pending slot and after that slot is resubmitted.
C25_NextDueTracksPending ==
    plan.status # "none" =>
       LET pend == {i \in DOMAIN slots : slots[i].status = "pending"}
       IN  IF pend = {} THEN plan.next_due_date = NoDate
           ELSE /\ \E i \in pend : slots[i].due_date = plan.next_due_date
                /\ \A i \in pend : plan.next_due_date <= slots[i].due_date

\* C26: in every state reached by sequential submit / verify / reject calls,
\* installments_paid equals the number of slots whose status is verified
\* and never exceeds number_of_installments.
C26_PaidCountsVerifiedSlots ==
    plan.status # "none" =>
       /\ plan.installments_paid = Cardinality(VerifiedSlots(slots))
       /\ plan.installments_paid <= plan.number_of_installments

\* both slots verified, one of them after a reject and a resubmission
C26_Witness ==
    /\ plan.installments_paid = 2
    /\ VerifiedSlots(slots) = {1, 2}
    /\ \E s \in DOMAIN slots : slots[s].rejection_reason # "null"

-----------------------------------------------------------------------------
(* Plan creation: properties *)

Abs(x) == IF x >= 0 THEN x ELSE -x

\* the amount financed, in hundredths of a cent: (P - D) + (P - D) * r / 100
Financed == RemainingNum(plan.total_amount, plan.down_payment, plan.interest_rate)

\* creation inputs that the create operation is specified to accept: N >= 1,
\* 0 <= D < P, and an installment that rounds to a positive amount
ValidCreation ==
    /\ plan.status # "none"
    /\ plan.number_of_installments >= 1
    /\ 0 <= plan.down_payment /\ plan.down_payment < plan.total_amount
    /\ 2 * Financed > 100 * plan.number_of_installments

\* next_due_date, status and the N slots of a created plan
CreatedShape ==
    /\ plan.next_due_date = plan.start_date
    /\ plan.status = "active"
    /\ DOMAIN slots = 1..plan.number_of_installments
    /\ \A i \in DOMAIN slots :
          /\ slots[i].status = "pending"
          /\ slots[i].amount = plan.installment_amount
    /\ (plan.total_amount = 1200000 /\ plan.down_payment = 200000)
          => (plan.installment_amount = 100000 /\ Len(slots) = 10)

\* C13, as the code has it: a created plan stores the financed amount
\* (P - D) + (P - D) * r / 100 rounded to the nearest cent, its
\* installment_amount is the unrounded financed amount divided by N and
\* rounded to the nearest cent, next_due_date is S, status is active, and
\* there are exactly N pending slots, each of amount installment_amount;
\* 12000.00 with 2000.00 down in 10 installments gives 1000.00 and 10 slots.
C13_CreatedPlanValues ==
    ValidCreation =>
       /\ 2 * Abs(100 * plan.remaining_amount - Financed) <= 100
       /\ 2 * Abs(100 * plan.number_of_installments * plan.installment_amount
                    - Financed) <= 100 * plan.number_of_installments
       /\ CreatedShape

\* a plan whose financed amount is not a whole number of cents
C13_Witness ==
    /\ ValidCreation
    /\ Len(slots) = 2
    /\ plan.interest_rate = 25
    /\ 100 * plan.remaining_amount # Financed

\* C13 as stated: remaining_amount is exactly (P - D) + (P - D) * r / 100.
C13_RemainingIsExact ==
    ValidCreation =>
       /\ 100 * plan.remaining_amount = Financed
       /\ 2 * Abs(100 * plan.number_of_installments * plan.installment_amount
                    - Financed) <= 100 * plan.number_of_installments
       /\ CreatedShape

\* C14: creation with N <= 0, D >= P or an installment amount <= 0 fails
\* with InvalidScheduleParameters and writes no plan and no slot: no plan
\* row has such parameters, and no creation fails with another error.
C14_InvalidParametersRejected ==
    /\ plan.status # "none" =>
          /\ plan.number_of_installments >= 1
          /\ plan.down_payment < plan.total_amount
          /\ plan.installment_amount > 0
    /\ (resp.op = "create" /\ resp.code # "ok")
          => resp.code = "InvalidScheduleParameters"

\* S + k cadence units: weeks, fortnights, or calendar months clamped to
\* the last day of a shorter month
PlusUnits(date, frequency, k) ==
    IF frequency = "weekly" THEN date + 7 * k
    ELSE IF frequency = "biweekly" THEN date + 14 * k
    ELSE AddMonths(date, k)

\* C15: slot k is due on S + (k - 1) cadence units, end_date is S + N
\* cadence units, and end_date is one cadence unit after the last slot's
\* due date.
C15_DueDatesOnCadence ==
    (plan.status # "none" /\ plan.number_of_installments >= 1) =>
       /\ \A k \in DOMAIN slots :
             slots[k].due_date
                = PlusUnits(plan.start_date, plan.frequency, k - 1)
       /\ plan.end_date
             = PlusUnits(plan.start_date, plan.frequency,
                         plan.number_of_installments)
       /\ plan.end_date
             = PlusUnits(slots[Len(slots)].due_date, plan.frequency, 1)

\* C16: for 0 <= D < P and N >= 1 the sum of the slot amounts and the
\* plan's remaining_amount at creation differ by at most N - 1 cents.
C16_RoundingDriftBound ==
    (/\ plan.status # "none"
     /\ plan.number_of_installments >= 1
     /\ 0 <= plan.down_payment /\ plan.down_payment < plan.total_amount) =>
       Abs(SumAmounts(slots, DOMAIN slots) - plan.remaining_amount)
          <= plan.number_of_installments - 1

-----------------------------------------------------------------------------
(* Scheduled mode, concurrent requests: properties *)

\* the plan row as createPlan stored it
CreatedPlan ==
    NewPlan(plan.total_amount, plan.down_payment, plan.interest_rate,
            plan.number_of_installments, plan.frequency, plan.start_date, db)

BothDone(op1, s1, op2, s2) ==
    \E r1, r2 \in ReqIds :
       /\ r1 # r2
       /\ reqs[r1].pc = "done" /\ reqs[r1].op = op1 /\ reqs[r1].slot = s1
       /\ reqs[r2].pc = "done" /\ reqs[r2].op = op2 /\ reqs[r2].slot = s2

\* C4: of two verify requests for the same slot, exactly one succeeds, the
\* other fails with AlreadyVerified, and remaining_amount is decremented by
\* the slot amount once and installments_paid incremented once.
C4_TwoVerifiesOneSucceeds ==
    \A s \in DOMAIN slots :
       BothDone("verify", s, "verify", s) =>
          /\ \E r1, r2 \in ReqIds :
                /\ r1 # r2
                /\ reqs[r1].code = "ok"
                /\ reqs[r2].code = "AlreadyVerified"
          /\ plan.remaining_amount
                = CreatedPlan.remaining_amount - slots[s].amount
          /\ plan.installments_paid = 1

\* C5: verify requests for two different slots of the plan behave as if
\* serialized: after both have succeeded the balance is down by both slot
\* amounts and installments_paid is up by two.
C5_TwoSlotsBothCounted ==
    \A s1, s2 \in DOMAIN slots :
       (/\ s1 # s2
        /\ BothDone("verify", s1, "verify", s2)
        /\ \A r \in ReqIds : reqs[r].code = "ok") =>
          /\ plan.remaining_amount
                = CreatedPlan.remaining_amount
                     - slots[s1].amount - slots[s2].amount
          /\ plan.installments_paid = 2

\* C6: a slot that has reached status verified never has another status
\* afterwards, whatever request runs concurrently with the verify.
C6_VerifiedIsTerminal ==
    [][\A s \in DOMAIN slots :
          slots[s].status = "verified" => slots'[s].status = "verified"]_vars

\* C7: the effects of a verify become visible together: no state shows a
\* verified slot while remaining_amount and installments_paid still have
\* the values they had before any verification.
C7_VerifyIsAllOrNothing ==
    VerifiedSlots(slots) # {} =>
       ~ (/\ plan.installments_paid = 0
          /\ plan.remaining_amount = CreatedPlan.remaining_amount)

-----------------------------------------------------------------------------
(* Running-balance mode: properties *)

\* the stored balance fields of record rid are the ones computed from its
\* live events
MatchesEvents(rid) ==
    LET row == records[rid]
        sum == TotalPayments(payments, rid)
    IN  /\ row.total_paid = row.advance_payment + sum
        /\ row.remaining_amount
              = Max(0, row.total_cost - row.advance_payment - sum)
        /\ row.is_completed <=> (row.remaining_amount = 0)

\* C9: after any sequence of postPayment and deletePayment calls run one at
\* a time, total_paid = advance_payment + sum of the live events,
\* remaining_amount = max(0, total_cost - advance_payment - that sum), and
\* is_completed holds exactly when remaining_amount is zero.
C9_BalanceRecomputedFromEvents ==
    \A rid \in DOMAIN records : MatchesEvents(rid)

\* a payment was deleted from a completed record, which is open again
C9_Witness ==
    \E rid \in DOMAIN records :
       /\ resp = Response("delete_payment", 0, "ok")
       /\ records[rid].status = "completed"
       /\ ~ records[rid].is_completed
       /\ records[rid].remaining_amount > 0
       /\ PaymentsOf(payments, rid) # {}

\* the two ways to post a payment
PostOps == {"add_payment", "create_payment"}

\* C11, as the code has it: a post with amount <= 0 fails, creates no event
\* and leaves the record unchanged on both creation paths; the error is the
\* amount's validation error, except that add_payment on a completed record
\* answers that the record is already completed before it looks at the
\* amount.
C11_NonPositiveAmountRejected ==
    [][(resp'.op \in PostOps /\ resp'.amount_paid <= 0) =>
          /\ resp'.code =
                IF /\ resp'.op = "add_payment"
                   /\ records[resp'.installment_record].is_completed
                THEN "AlreadyCompleted" ELSE "ValidationError"
          /\ payments' = payments
          /\ records' = records
          /\ nextEvent' = nextEvent]_vars

\* a negative amount was refused on a record that has a payment
C11_Witness ==
    /\ resp.op = "create_payment"
    /\ resp.amount_paid < 0
    /\ resp.code = "ValidationError"
    /\ PaymentsOf(payments, resp.installment_record) # {}

\* C11 as stated: a post with amount <= 0 always fails with the amount's
\* validation error (InvalidAmount), creating nothing and changing nothing.
C11_InvalidAmountOnEveryPath ==
    [][(resp'.op \in PostOps /\ resp'.amount_paid <= 0) =>
          /\ resp'.code = "ValidationError"
          /\ payments' = payments
          /\ records' = records]_vars

\* C12: a payment that brings remaining_amount to zero sets is_completed,
\* and a post on a completed record either is rejected without creating an
\* event or leaves remaining_amount and total_paid as they were, on both
\* creation paths.
C12_CompletedRecordTakesNoPayment ==
    [][resp'.op \in PostOps =>
          LET rid == resp'.installment_record
          IN  /\ (payments' # payments /\ records'[rid].remaining_amount = 0)
                    => records'[rid].is_completed
              /\ records[rid].is_completed =>
                    \/ (resp'.code # "ok" /\ payments' = payments)
                    \/ /\ records'[rid].remaining_amount
                             = records[rid].remaining_amount
                       /\ records'[rid].total_paid = records[rid].total_paid]_vars

\* C10: once two concurrent postPayment / deletePayment requests on a
\* record have both finished, its remaining_amount, total_paid and
\* is_completed are the values recomputed from the final live event set.
C10_ConcurrentRecomputation ==
    (\A j \in JobIds : jobs[j].pc = "done") =>
       \A rid \in DOMAIN records : MatchesEvents(rid)

-----------------------------------------------------------------------------
(* Running-balance mode, status and amount due: properties *)

\* the most recent payment date of record rid, or its start date when it
\* has no payment
ReferenceDate(rid) ==
    LET dates == {e.payment_date : e \in PaymentsOf(payments, rid)}
    IN  IF dates = {} THEN records[rid].start_date
        ELSE CHOOSE d \in dates : \A d2 \in dates : d2 <= d

C19_CountedFromLaterDate ==
    \A rid \in DOMAIN records :
       LET row == records[rid]
           from == Max(row.start_date, ReferenceDate(rid))
       IN  (~ row.is_completed /\ row.status # "paused"
               /\ row.remaining_amount > 0) =>
              (calculated_status(row, payments, rid, today) = "overdue"
                  <=> today - from > 35)

\* C18: the amount due this period on the date today is the sum of
\* monthly_installment over the non-completed records minus the payments
\* posted to those records and dated from the first day of today's month
\* to today, floored at zero.
C18_AmountDueThisPeriod ==
    LET open == {rid \in DOMAIN records : ~ records[rid].is_completed}
        first == today - DayOfMonth(today) + 1
        posted == {e \in payments :
                     /\ e.installment_record \in open
                     /\ first <= e.payment_date /\ e.payment_date <= today}
        due == total_monthly_installment(records, payments, today)
    IN  /\ due = Max(0, SumMonthly(records, open) - SumPaid(posted))
        /\ due >= 0

\* two open records, a payment of an earlier month, a payment of this month
\* and something still due
C18_Witness ==
    /\ ActiveRecords(records) = DueRecordIds
    /\ \E e1, e2 \in payments :
          /\ e1.payment_date < FirstOfMonth(today)
          /\ e2.payment_date >= FirstOfMonth(today) /\ e2.payment_date <= today
    /\ total_monthly_installment(records, payments, today) > 0

-----------------------------------------------------------------------------
(* Running-balance mode, stored status and edits: properties *)

\* C27: after any sequence of postPayment and deletePayment calls, the
\* stored status of a record is completed exactly when is_completed is
\* true; a deletion that reopens a completed record moves the stored status
\* away from completed.
C27_StoredStatusFollowsCompletion ==
    \A rid \in DOMAIN records :
       records[rid].status = "completed" <=> records[rid].is_completed

\* C28: posting a payment dated in the current month to a non-completed
\* record never increases the customer's amount due this period, also when
\* the payment completes the record and when the earlier payments of the
\* month exceeded the record's monthly installment.
C28_PostNeverRaisesAmountDue ==
    [][\A e \in payments' \ payments :
          (/\ ~ records[e.installment_record].is_completed
           /\ FirstOfMonth(today) <= e.payment_date
           /\ e.payment_date <= today) =>
             total_monthly_installment(records', payments', today')
                <= total_monthly_installment(records, payments, today)]_vars

\* C29: after a payment event is edited (its amount changed, or its owning
\* record changed), the record it now belongs to and the record it belonged
\* to before both have remaining_amount, total_paid and is_completed equal
\* to the values recomputed from their own live events.
C29_EditRecomputesBothRecords ==
    [][\A e \in payments, f \in payments' :
          (e.id = f.id /\ e # f) =>
             /\ MatchesEvents(f.installment_record)'
             /\ MatchesEvents(e.installment_record)']_vars

\* C30: after a record's total_cost or advance_payment is updated, with or
\* without payments, remaining_amount = max(0, total_cost - advance_payment
\* - sum of the live events), total_paid = advance_payment + that sum, and
\* is_completed holds exactly when remaining_amount is zero.
C30_TermsUpdateRecomputesBalance ==
    [][\A rid \in DOMAIN records :
          (\/ records'[rid].total_cost # records[rid].total_cost
           \/ records'[rid].advance_payment # records[rid].advance_payment)
             => MatchesEvents(rid)']_vars

====
